---- MODULE Spec2Model ----
(***************************************************************************)
(* SceneManager (7-1_FinalProjectMilestones/Source/SceneManager.cpp):      *)
(* the texture registry, the material registry, the transform composer,    *)
(* the shader state facade and the scene script (PrepareScene /            *)
(* RenderScene).                                                           *)
(*                                                                         *)
(* Numbers that are floats in the source are fixed-point integers in       *)
(* thousandths (0.753 is 753, 20.0f is 20000); rotation angles stay in     *)
(* whole degrees.  C++ index i of m_textureIDs / m_objectMaterials is      *)
(* element i + 1 of the sequence of the same name.                         *)
(***************************************************************************)
EXTENDS Integers, Naturals, Sequences, FiniteSets, TLC

\* ------------------------------------------------------------------------
\* Bounds of the model
\* ------------------------------------------------------------------------
\* CreateGLTexture calls made directly by a caller in one behaviour
MaxLoads == 2
\* largest indeterminate start value of m_loadedTextures that is explored
MaxGarbage == 1
\* DefineObjectMaterials calls made directly by a caller in one behaviour
MaxDefines == 1
\* PrepareScene calls in one behaviour
MaxPrepares == 1
\* RenderScene calls in one behaviour
MaxFrames == 2
\* CreateGLTexture calls in one behaviour of the capacity specification
MaxCapacityLoads == 17
\* GL texture names in use beyond which DestroyGLTextures is not called again
MaxNames == 4

\* ------------------------------------------------------------------------
\* Value domains
\* ------------------------------------------------------------------------
NULL == "NULL"
ShaderObj == "ShaderManager"

\* fixed-point value of a float literal with an integral value
Fx(n) == n * 1000

\* tags a caller passes; "" is the tag of a default-constructed std::string
TexTags == {"couch", "floor", ""}
MatTags == {"fabric", "wood", "metal"}

\* what stbi_load can produce for a file: no image (NULL), or an image with
\* 1..4 channels
NoImage == [image |-> FALSE, channels |-> 0]
FileKinds == {NoImage} \cup {[image |-> TRUE, channels |-> c] : c \in 1..4}

\* contents an uninitialized GLuint / int can have
IndeterminateIDs == {0, 1}

\* number of slots of the m_textureIDs array / of GL texture units used
TexCapacity == 16
GLUnits == 0..(TexCapacity - 1)

BoolToInt(b) == IF b THEN 1 ELSE 0

Vec3(x, y, z) == <<x, y, z>>
Vec4(x, y, z, w) == <<x, y, z, w>>

VARIABLES
    m_pShaderManager,   \* NULL or the shader manager
    m_loadedTextures,   \* int m_loadedTextures
    m_textureIDs,       \* slots 0 .. m_loadedTextures-1 of TEXTURE_INFO m_textureIDs[16]
    m_objectMaterials,  \* std::vector<OBJECT_MATERIAL>
    m_basicMeshes,      \* mesh kinds the ShapeMeshes object has loaded
    glTextures,         \* texture names generated and not deleted
    glActiveUnit,       \* the GL active texture unit
    glBound,            \* unit -> name bound to GL_TEXTURE_2D (0: none)
    stbiLive,           \* decoded image buffers not yet freed
    uniforms,           \* uniform values of the shader program
    last,               \* the last call: operation, arguments, results
    drawCalls,          \* draw calls of the last RenderScene, in order
    crashed,            \* the process was stopped by undefined behaviour (a NULL
                        \* shader manager dereferenced, a write past m_textureIDs)
    loadsOk,            \* successful CreateGLTexture calls so far
    nLoads,             \* direct CreateGLTexture calls so far
    nPrepares,          \* PrepareScene calls so far
    nFrames             \* RenderScene calls so far

vars == <<m_pShaderManager, m_loadedTextures, m_textureIDs, m_objectMaterials,
          m_basicMeshes, glTextures, glActiveUnit, glBound, stbiLive, uniforms,
          last, drawCalls, crashed, loadsOk, nLoads, nPrepares, nFrames>>

\* ------------------------------------------------------------------------
\* State after construction
\* ------------------------------------------------------------------------
\* a light's uniforms before SetupSceneLights (uniforms start as zero)
NoLight ==
    [position |-> Vec3(0, 0, 0), ambient |-> Vec3(0, 0, 0), diffuse |-> Vec3(0, 0, 0),
     specular |-> Vec3(0, 0, 0), bActive |-> FALSE]

\* the 4x4 zero matrix, rows first
ZeroMat == <<<<0, 0, 0, 0>>, <<0, 0, 0, 0>>, <<0, 0, 0, 0>>, <<0, 0, 0, 0>>>>

\* uniform values of a freshly linked program
UniformDefaults ==
    [model |-> ZeroMat, bUseTexture |-> 0, objectColor |-> Vec4(0, 0, 0, 0),
     objectTexture |-> 0, UVscale |-> <<0, 0>>,
     matDiffuse |-> Vec3(0, 0, 0), matSpecular |-> Vec3(0, 0, 0), matShininess |-> 0,
     bUseLighting |-> FALSE, pointLights |-> <<NoLight, NoLight>>]

\* a material whose fields were never assigned
NoMaterial ==
    [diffuseColor |-> Vec3(0, 0, 0), specularColor |-> Vec3(0, 0, 0), shininess |-> 0]

\* no call made yet
NoCall ==
    [op |-> "none", tag |-> "", file |-> NoImage, ok |-> FALSE, ret |-> 0, iters |-> 0,
     slot |-> 0, id |-> 0, args |-> <<>>, matIn |-> NoMaterial, matOut |-> NoMaterial,
     pushed |-> <<>>, calls |-> <<>>, frame |-> 0]

\* the slots of m_textureIDs below an indeterminate m_loadedTextures: each has
\* the tag of a default-constructed std::string and an indeterminate ID
IndeterminateSlots(n) ==
    [1..n -> [tag : {""}, ID : IndeterminateIDs]]

\* SceneManager::SceneManager sets m_pShaderManager and m_basicMeshes only;
\* m_loadedTextures is not assigned, so it starts indeterminate
Constructed(pShaderManager) ==
    /\ m_pShaderManager = pShaderManager
    /\ m_basicMeshes = {}
    /\ m_loadedTextures \in 0..MaxGarbage
    /\ m_textureIDs \in IndeterminateSlots(m_loadedTextures)
    /\ m_objectMaterials = <<>>

\* a SceneManager constructed over a GL context and a shader program nothing
\* has used yet
Fresh ==
    /\ \E p \in {NULL, ShaderObj} : Constructed(p)
    /\ glTextures = {}
    /\ glActiveUnit = 0
    /\ glBound = [u \in GLUnits |-> 0]
    /\ stbiLive = 0
    /\ uniforms = UniformDefaults
    /\ drawCalls = <<>>
    /\ crashed = FALSE
    /\ loadsOk = 0
    /\ nLoads = 0
    /\ nPrepares = 0
    /\ nFrames = 0

Init == Fresh /\ last = NoCall

\* ------------------------------------------------------------------------
\* Texture registry
\* ------------------------------------------------------------------------
\* what a texture load reads and writes: the registry, the GL texture state
\* and the decoded image buffers
TexState ==
    [ids |-> m_textureIDs, n |-> m_loadedTextures, names |-> glTextures,
     active |-> glActiveUnit, bound |-> glBound, live |-> stbiLive, ok |-> loadsOk]

SetTexState(t) ==
    /\ m_textureIDs' = t.ids
    /\ m_loadedTextures' = t.n
    /\ glTextures' = t.names
    /\ glActiveUnit' = t.active
    /\ glBound' = t.bound
    /\ stbiLive' = t.live
    /\ loadsOk' = t.ok

\* glGenTextures(1, &textureID): the lowest name not in use (names start at 1)
RECURSIVE LowestUnusedFrom(_, _)
LowestUnusedFrom(names, n) == IF n \in names THEN LowestUnusedFrom(names, n + 1) ELSE n

glGenTexture(names) == LowestUnusedFrom(names, 1)

\* CreateGLTexture without its final else branch: every decoded image is registered
Uploadable_AnyChannels(colorChannels) == colorChannels \in 1..4

\* the channel counts CreateGLTexture uploads (GL_RGB8 / GL_RGBA8)
Uploadable(colorChannels) == colorChannels = 3 \/ colorChannels = 4

\* m_textureIDs[m_loadedTextures] = {textureID, tag}; m_loadedTextures++
RegisterTexture(t, textureID, tag) ==
    [t EXCEPT !.ids = Append(@, [tag |-> tag, ID |-> textureID]), !.n = @ + 1]

\* CreateGLTexture(filename, tag) with `file` what stbi_load makes of the
\* file: the state it leaves, its return value, the name it generated and the
\* slot it wrote
CreateGLTextureOn(t, file, tag) ==
    IF file.image
    THEN LET textureID == glGenTexture(t.names)
             bound == [t EXCEPT !.names = @ \cup {textureID}]
         IN  IF Uploadable(file.channels)
             THEN [t |-> [RegisterTexture(bound, textureID, tag)
                             EXCEPT !.bound[t.active] = 0, !.ok = @ + 1],
                   ok |-> TRUE, id |-> textureID, slot |-> t.n]
             ELSE \* return false: the image is not freed, the texture stays bound
                  [t |-> [bound EXCEPT !.bound[t.active] = textureID, !.live = @ + 1],
                   ok |-> FALSE, id |-> textureID, slot |-> 0]
    ELSE [t |-> t, ok |-> FALSE, id |-> 0, slot |-> 0]

\* what a store to m_textureIDs[slot] can do to the process: a slot past the
\* 16 of the array is written outside it, which either goes unnoticed (the
\* entry is read back from where it was written) or stops the process
StoreOutcomes(stored, slot) ==
    IF stored /\ slot >= TexCapacity THEN {FALSE, TRUE} ELSE {FALSE}

\* a caller's CreateGLTexture call, the `limit`-th at most
CreateGLTextureUpTo(limit, file, tag) ==
    /\ ~crashed
    /\ nLoads < limit
    /\ LET r == CreateGLTextureOn(TexState, file, tag)
       IN  /\ SetTexState(r.t)
           /\ last' = [NoCall EXCEPT !.op = "CreateGLTexture", !.tag = tag,
                          !.file = file, !.ok = r.ok, !.id = r.id, !.slot = r.slot]
           /\ crashed' \in StoreOutcomes(r.ok, r.slot)
    /\ nLoads' = nLoads + 1
    /\ UNCHANGED <<m_pShaderManager, m_objectMaterials, m_basicMeshes,
                   uniforms, drawCalls, nPrepares, nFrames>>

CreateGLTexture(file, tag) == CreateGLTextureUpTo(MaxLoads, file, tag)

\* FindTextureSlot without its bFound test: the scan runs on to the last match
RECURSIVE FindTextureSlotFrom_LastMatch(_, _)
FindTextureSlotFrom_LastMatch(index, tag) ==
    IF index < m_loadedTextures
    THEN LET r == FindTextureSlotFrom_LastMatch(index + 1, tag)
         IN  IF m_textureIDs[index + 1].tag = tag /\ r.ret = -1
             THEN [ret |-> index, iters |-> r.iters + 1]
             ELSE [ret |-> r.ret, iters |-> r.iters + 1]
    ELSE [ret |-> -1, iters |-> 0]

\* the while loop of FindTextureSlot from `index` on: the slot returned and
\* the number of entries compared
RECURSIVE FindTextureSlotFrom(_, _)
FindTextureSlotFrom(index, tag) ==
    IF index < m_loadedTextures
    THEN IF m_textureIDs[index + 1].tag = tag
         THEN [ret |-> index, iters |-> 1]
         ELSE LET r == FindTextureSlotFrom(index + 1, tag)
              IN  [ret |-> r.ret, iters |-> r.iters + 1]
    ELSE [ret |-> -1, iters |-> 0]

FindTextureSlotScan(tag) == FindTextureSlotFrom(0, tag)

\* FindTextureID with textureID starting at 0 instead of -1
RECURSIVE FindTextureIDFrom_ZeroSentinel(_, _)
FindTextureIDFrom_ZeroSentinel(index, tag) ==
    IF index < m_loadedTextures
    THEN IF m_textureIDs[index + 1].tag = tag
         THEN [ret |-> m_textureIDs[index + 1].ID, iters |-> 1]
         ELSE LET r == FindTextureIDFrom_ZeroSentinel(index + 1, tag)
              IN  [ret |-> r.ret, iters |-> r.iters + 1]
    ELSE [ret |-> 0, iters |-> 0]

\* the while loop of FindTextureID from `index` on
RECURSIVE FindTextureIDFrom(_, _)
FindTextureIDFrom(index, tag) ==
    IF index < m_loadedTextures
    THEN IF m_textureIDs[index + 1].tag = tag
         THEN [ret |-> m_textureIDs[index + 1].ID, iters |-> 1]
         ELSE LET r == FindTextureIDFrom(index + 1, tag)
              IN  [ret |-> r.ret, iters |-> r.iters + 1]
    ELSE [ret |-> -1, iters |-> 0]

FindTextureIDScan(tag) == FindTextureIDFrom(0, tag)

\* the value FindTextureSlot / FindTextureID return
FindTextureSlotRet(tag) == FindTextureSlotScan(tag).ret
FindTextureIDRet(tag) == FindTextureIDScan(tag).ret

FindTextureSlot(tag) ==
    /\ ~crashed
    /\ last' = [NoCall EXCEPT !.op = "FindTextureSlot", !.tag = tag,
                   !.ret = FindTextureSlotRet(tag),
                   !.iters = FindTextureSlotScan(tag).iters]
    /\ UNCHANGED <<m_pShaderManager, m_loadedTextures, m_textureIDs, m_objectMaterials,
                   m_basicMeshes, glTextures, glActiveUnit, glBound, stbiLive, uniforms,
                   drawCalls, crashed, loadsOk, nLoads, nPrepares, nFrames>>

FindTextureID(tag) ==
    /\ ~crashed
    /\ last' = [NoCall EXCEPT !.op = "FindTextureID", !.tag = tag,
                   !.ret = FindTextureIDRet(tag),
                   !.iters = FindTextureIDScan(tag).iters]
    /\ UNCHANGED <<m_pShaderManager, m_loadedTextures, m_textureIDs, m_objectMaterials,
                   m_basicMeshes, glTextures, glActiveUnit, glBound, stbiLive, uniforms,
                   drawCalls, crashed, loadsOk, nLoads, nPrepares, nFrames>>

\* the loop of BindGLTextures from slot i on
RECURSIVE BindFrom(_, _)
BindFrom(i, t) ==
    IF i < t.n
    THEN IF i \in GLUnits
         THEN BindFrom(i + 1, [t EXCEPT !.active = i, !.bound[i] = t.ids[i + 1].ID])
         ELSE \* GL_TEXTURE0 + i is no texture unit: glActiveTexture fails
              \* and the bind goes to the unit that is still active
              BindFrom(i + 1, [t EXCEPT !.bound[t.active] = t.ids[i + 1].ID])
    ELSE t

\* BindGLTextures without the glActiveTexture call: every texture is bound on
\* the unit that is active, the last one staying
BindGLTexturesOn_SingleUnit(t) ==
    IF t.n > 0 THEN [t EXCEPT !.bound[t.active] = t.ids[t.n].ID] ELSE t

BindGLTexturesOn(t) == BindFrom(0, t)

BindGLTextures ==
    /\ ~crashed
    /\ SetTexState(BindGLTexturesOn(TexState))
    /\ last' = [NoCall EXCEPT !.op = "BindGLTextures"]
    /\ UNCHANGED <<m_pShaderManager, m_objectMaterials, m_basicMeshes, uniforms,
                   drawCalls, crashed, nLoads, nPrepares, nFrames>>

\* the loop of DestroyGLTextures from slot i on: glGenTextures(1, &m_textureIDs[i].ID)
\* generates a new name and stores it over the registered one; no name is deleted
RECURSIVE DestroyFrom(_, _)
DestroyFrom(i, t) ==
    IF i < t.n
    THEN DestroyFrom(i + 1, [t EXCEPT !.ids[i + 1].ID = glGenTexture(t.names),
                                      !.names = @ \cup {glGenTexture(t.names)}])
    ELSE t

DestroyGLTexturesOn(t) == DestroyFrom(0, t)

\* the SceneManager object exists: its destructor has not run
Alive == last.op # "~SceneManager"

DestroyGLTextures ==
    /\ ~crashed
    /\ Alive
    /\ Cardinality(glTextures) + m_loadedTextures <= MaxNames
    /\ SetTexState(DestroyGLTexturesOn(TexState))
    /\ last' = [NoCall EXCEPT !.op = "DestroyGLTextures"]
    /\ UNCHANGED <<m_pShaderManager, m_objectMaterials, m_basicMeshes, uniforms,
                   drawCalls, crashed, nLoads, nPrepares, nFrames>>

\* SceneManager::~SceneManager: the shader pointer is cleared and the meshes
\* are deleted; the texture registry and the GL names are left as they are
Destructor ==
    /\ ~crashed
    /\ Alive
    /\ m_pShaderManager' = NULL
    /\ m_basicMeshes' = {}
    /\ last' = [NoCall EXCEPT !.op = "~SceneManager"]
    /\ UNCHANGED <<m_loadedTextures, m_textureIDs, m_objectMaterials, glTextures,
                   glActiveUnit, glBound, stbiLive, uniforms, drawCalls, crashed,
                   loadsOk, nLoads, nPrepares, nFrames>>

\* ------------------------------------------------------------------------
\* Material registry
\* ------------------------------------------------------------------------
fabricMaterial ==
    [tag |-> "fabric", diffuseColor |-> Vec3(500, 500, 500),
     specularColor |-> Vec3(400, 400, 400), shininess |-> 500]

woodMaterial ==
    [tag |-> "wood", diffuseColor |-> Vec3(500, 500, 500),
     specularColor |-> Vec3(400, 400, 400), shininess |-> 300]

\* the vector after DefineObjectMaterials' two push_back calls
DefinedMaterials(materials) == Append(Append(materials, fabricMaterial), woodMaterial)

DefineObjectMaterials ==
    /\ ~crashed
    /\ Len(m_objectMaterials) < 2 * MaxDefines
    /\ m_objectMaterials' = DefinedMaterials(m_objectMaterials)
    /\ last' = [NoCall EXCEPT !.op = "DefineObjectMaterials"]
    /\ UNCHANGED <<m_pShaderManager, m_loadedTextures, m_textureIDs, m_basicMeshes,
                   glTextures, glActiveUnit, glBound, stbiLive, uniforms, drawCalls,
                   crashed, loadsOk, nLoads, nPrepares, nFrames>>

\* the while loop of FindMaterial from `index` on, with the caller's material:
\* the material it leaves and the number of entries compared
RECURSIVE FindMaterialFrom(_, _, _)
FindMaterialFrom(index, tag, material) ==
    IF index < Len(m_objectMaterials)
    THEN IF m_objectMaterials[index + 1].tag = tag
         THEN [material |->
                  [diffuseColor |-> m_objectMaterials[index + 1].diffuseColor,
                   specularColor |-> m_objectMaterials[index + 1].specularColor,
                   shininess |-> m_objectMaterials[index + 1].shininess],
               found |-> TRUE, iters |-> 1]
         ELSE LET r == FindMaterialFrom(index + 1, tag, material)
              IN  [material |-> r.material, found |-> r.found, iters |-> r.iters + 1]
    ELSE [material |-> material, found |-> FALSE, iters |-> 0]

\* FindMaterial returning bFound instead of true
FoundAfterScan_bFound(scan) == scan.iters > 0 /\ scan.found

\* what FindMaterial returns once the vector is known not to be empty
FoundAfterScan(scan) == TRUE

\* FindMaterial(tag, material): its return value and the material it leaves
FindMaterialCall(tag, material) ==
    IF Len(m_objectMaterials) = 0
    THEN [ok |-> FALSE, material |-> material, iters |-> 0]
    ELSE LET scan == FindMaterialFrom(0, tag, material)
         IN  [ok |-> FoundAfterScan(scan), material |-> scan.material,
              iters |-> scan.iters]

\* materials a caller hands to FindMaterial
CallerMaterials ==
    {NoMaterial,
     [diffuseColor |-> Vec3(100, 200, 300), specularColor |-> Vec3(600, 700, 800),
      shininess |-> 900]}

FindMaterial(tag, material) ==
    /\ ~crashed
    /\ LET r == FindMaterialCall(tag, material)
       IN  last' = [NoCall EXCEPT !.op = "FindMaterial", !.tag = tag, !.ok = r.ok,
                       !.matIn = material, !.matOut = r.material, !.iters = r.iters]
    /\ UNCHANGED <<m_pShaderManager, m_loadedTextures, m_textureIDs, m_objectMaterials,
                   m_basicMeshes, glTextures, glActiveUnit, glBound, stbiLive, uniforms,
                   drawCalls, crashed, loadsOk, nLoads, nPrepares, nFrames>>

\* ------------------------------------------------------------------------
\* Transform composer
\* ------------------------------------------------------------------------
\* product of two fixed-point numbers
FxMul(a, b) == (a * b) \div 1000

\* 4x4 matrices are rows of rows; the matrix product
MatMul(A, B) ==
    LET e(i, j) == FxMul(A[i][1], B[1][j]) + FxMul(A[i][2], B[2][j])
                 + FxMul(A[i][3], B[3][j]) + FxMul(A[i][4], B[4][j])
    IN  <<<<e(1, 1), e(1, 2), e(1, 3), e(1, 4)>>,
          <<e(2, 1), e(2, 2), e(2, 3), e(2, 4)>>,
          <<e(3, 1), e(3, 2), e(3, 3), e(3, 4)>>,
          <<e(4, 1), e(4, 2), e(4, 3), e(4, 4)>>>>

\* glm::scale(v)
ScaleMatrix(v) ==
    <<<<v[1], 0, 0, 0>>, <<0, v[2], 0, 0>>, <<0, 0, v[3], 0>>, <<0, 0, 0, Fx(1)>>>>

\* glm::translate(v)
TranslateMatrix(v) ==
    <<<<Fx(1), 0, 0, v[1]>>, <<0, Fx(1), 0, v[2]>>, <<0, 0, Fx(1), v[3]>>,
      <<0, 0, 0, Fx(1)>>>>

\* glm::radians(degrees), in quarter turns (units of pi/2); the angles of the
\* model are multiples of 90 degrees
Radians(degrees) == degrees \div 90

\* cos and sin of an angle given in quarter turns
Cos(q) == CASE q % 4 = 0 -> Fx(1) [] q % 4 = 2 -> -Fx(1) [] OTHER -> 0
Sin(q) == CASE q % 4 = 1 -> Fx(1) [] q % 4 = 3 -> -Fx(1) [] OTHER -> 0

\* the cross-product matrix of an axis
CrossMatrix(axis) ==
    <<<<0, -axis[3], axis[2]>>, <<axis[3], 0, -axis[1]>>, <<-axis[2], axis[1], 0>>>>

\* glm::rotate(angle, axis) for a unit axis:
\* cos*I + (1 - cos)*axis*axis^T + sin*[axis]x
RotateMatrix(angle, axis) ==
    LET e(i, j) == (IF i = j THEN Cos(angle) ELSE 0)
                   + FxMul(Fx(1) - Cos(angle), FxMul(axis[i], axis[j]))
                   + FxMul(Sin(angle), CrossMatrix(axis)[i][j])
    IN  <<<<e(1, 1), e(1, 2), e(1, 3), 0>>,
          <<e(2, 1), e(2, 2), e(2, 3), 0>>,
          <<e(3, 1), e(3, 2), e(3, 3), 0>>,
          <<0, 0, 0, Fx(1)>>>>

\* translation * rotationX * rotationY * rotationZ * scale: the rotations in
\* the opposite order
ModelView_RotationsReversed(scaleXYZ, XrotationDegrees, YrotationDegrees, ZrotationDegrees, positionXYZ) ==
    MatMul(TranslateMatrix(positionXYZ),
     MatMul(RotateMatrix(Radians(XrotationDegrees), Vec3(Fx(1), 0, 0)),
      MatMul(RotateMatrix(Radians(YrotationDegrees), Vec3(0, Fx(1), 0)),
       MatMul(RotateMatrix(Radians(ZrotationDegrees), Vec3(0, 0, Fx(1))),
              ScaleMatrix(scaleXYZ)))))

\* modelView = translation * rotationZ * rotationY * rotationX * scale
ModelView(scaleXYZ, XrotationDegrees, YrotationDegrees, ZrotationDegrees, positionXYZ) ==
    MatMul(TranslateMatrix(positionXYZ),
     MatMul(RotateMatrix(Radians(ZrotationDegrees), Vec3(0, 0, Fx(1))),
      MatMul(RotateMatrix(Radians(YrotationDegrees), Vec3(0, Fx(1), 0)),
       MatMul(RotateMatrix(Radians(XrotationDegrees), Vec3(Fx(1), 0, 0)),
              ScaleMatrix(scaleXYZ)))))

\* ------------------------------------------------------------------------
\* The blocks of RenderScene
\* ------------------------------------------------------------------------
\* one block of RenderScene: the source line of its scaleXYZ assignment, the
\* arguments of SetTransformations and SetShaderColor, the tags of its
\* SetShaderTexture and SetShaderMaterial calls (<<>> when the block has
\* none), the mesh it draws and whether Draw...MeshLines follows
Object(line, scaleXYZ, X, Y, Z, positionXYZ, color, tex, mat, mesh, lines) ==
    [line |-> line, scale |-> scaleXYZ, X |-> X, Y |-> Y, Z |-> Z,
     position |-> positionXYZ, color |-> color, tex |-> tex, mat |-> mat,
     mesh |-> mesh, lines |-> lines]

SceneScript ==
    <<
      Object(493, Vec3(20000, 1000, 10000), 0, 0, 0, Vec3(0, 0, 0),
             Vec4(753, 753, 753, 1000), <<"floor">>, <<"wood">>, "Plane", FALSE),
      Object(528, Vec3(20000, 1000, 10000), 90, 0, 0, Vec3(0, 9000, -10000),
             Vec4(827, 827, 827, 1000), <<"wall">>, <<"wood">>, "Plane", FALSE),
      Object(565, Vec3(5000, 250, 20000), 0, 90, 0, Vec3(0, 2000, -5000),
             Vec4(1000, 1000, 1000, 1000), <<>>, <<>>, "Box", TRUE),
      Object(601, Vec3(200, 2000, 200), 0, 90, 0, Vec3(-9000, 0, -7000),
             Vec4(1000, 1000, 1000, 1000), <<>>, <<>>, "Cylinder", TRUE),
      Object(637, Vec3(200, 2000, 200), 0, 90, 0, Vec3(-9000, 0, -3000),
             Vec4(1000, 1000, 1000, 1000), <<>>, <<>>, "Cylinder", TRUE),
      Object(673, Vec3(200, 2000, 200), 0, 90, 0, Vec3(9000, 0, -7000),
             Vec4(1000, 1000, 1000, 1000), <<>>, <<>>, "Cylinder", TRUE),
      Object(709, Vec3(200, 2000, 200), 0, 90, 0, Vec3(9000, 0, -3000),
             Vec4(1000, 1000, 1000, 1000), <<>>, <<>>, "Cylinder", TRUE),
      Object(745, Vec3(6500, 250, 5000), 90, 0, 0, Vec3(-6250, 4500, -7000),
             Vec4(663, 663, 663, 1000), <<"couch">>, <<"fabric">>, "Box", TRUE),
      Object(784, Vec3(6500, 250, 5000), 90, 0, 0, Vec3(250, 4500, -7000),
             Vec4(663, 663, 663, 1000), <<"couch">>, <<"fabric">>, "Box", TRUE),
      Object(821, Vec3(6000, 250, 5000), 90, 0, 0, Vec3(6500, 4500, -7000),
             Vec4(663, 663, 663, 1000), <<"couch">>, <<"fabric">>, "Box", TRUE),
      Object(859, Vec3(6500, 500, 4500), 0, 0, 0, Vec3(-6250, 2250, -5000),
             Vec4(663, 663, 663, 1000), <<"couch">>, <<"fabric">>, "Box", TRUE),
      Object(900, Vec3(6500, 500, 4500), 0, 0, 0, Vec3(250, 2250, -5000),
             Vec4(663, 663, 663, 1000), <<"couch">>, <<"fabric">>, "Box", TRUE),
      Object(940, Vec3(6500, 500, 4500), 0, 0, 0, Vec3(6250, 2250, -5000),
             Vec4(663, 663, 663, 1000), <<"couch">>, <<"fabric">>, "Box", TRUE),
      Object(978, Vec3(6500, 500, 4500), 0, 0, 0, Vec3(-15000, 3250, -5000),
             Vec4(545, 271, 75, 1000), <<"floor">>, <<"wood">>, "Box", TRUE),
      Object(1017, Vec3(500, 3000, 500), 0, 0, 0, Vec3(-18000, 1500, -7000),
             Vec4(1000, 1000, 1000, 1000), <<>>, <<>>, "Box", TRUE),
      Object(1053, Vec3(500, 3000, 500), 0, 0, 0, Vec3(-12000, 1500, -7000),
             Vec4(1000, 1000, 1000, 1000), <<>>, <<>>, "Box", TRUE),
      Object(1090, Vec3(500, 3000, 500), 0, 0, 0, Vec3(-18000, 1500, -7000),
             Vec4(1000, 1000, 1000, 1000), <<>>, <<>>, "Box", TRUE),
      Object(1125, Vec3(5500, 500, 500), 0, 0, 0, Vec3(-15000, 250, -7000),
             Vec4(1000, 1000, 1000, 1000), <<>>, <<>>, "Box", TRUE),
      Object(1161, Vec3(500, 500, 4500), 0, 0, 0, Vec3(-18000, 250, -5000),
             Vec4(1000, 1000, 1000, 1000), <<>>, <<>>, "Box", TRUE),
      Object(1197, Vec3(500, 500, 4500), 0, 0, 0, Vec3(-12000, 250, -5000),
             Vec4(1000, 1000, 1000, 1000), <<>>, <<>>, "Box", TRUE),
      Object(1233, Vec3(5500, 500, 500), 0, 0, 0, Vec3(-15000, 250, -3000),
             Vec4(1000, 1000, 1000, 1000), <<>>, <<>>, "Box", TRUE),
      Object(1269, Vec3(1500, 80, 1500), 0, 0, 0, Vec3(-15000, 3550, -5750),
             Vec4(392, 584, 929, 1000), <<>>, <<>>, "Box", TRUE),
      Object(1304, Vec3(150, 3000, 150), 0, 0, 0, Vec3(-15000, 5000, -5750),
             Vec4(392, 584, 929, 1000), <<>>, <<>>, "Box", TRUE),
      Object(1339, Vec3(750, -1500, 750), 0, 0, 0, Vec3(-15000, 7600, -5750),
             Vec4(392, 584, 929, 1000), <<>>, <<>>, "HalfSphere", TRUE),
      Object(1374, Vec3(600, 500, 600), 0, 0, 0, Vec3(-15000, 7400, -5750),
             Vec4(1000, 1000, 878, 1000), <<>>, <<>>, "HalfSphere", TRUE),
      Object(1409, Vec3(250, 10, 50), 0, 0, 0, Vec3(-15000, 3600, -5250),
             Vec4(753, 753, 753, 1000), <<>>, <<>>, "Box", TRUE),
      Object(1445, Vec3(1200, -800, 1200), 0, 0, 0, Vec3(-17000, 4300, -3800),
             Vec4(753, 753, 753, 1000), <<>>, <<>>, "HalfSphere", TRUE),
      Object(1480, Vec3(6500, 500, 4500), 0, 0, 0, Vec3(15000, 3250, -5000),
             Vec4(545, 271, 75, 1000), <<"floor">>, <<"wood">>, "Box", TRUE),
      Object(1519, Vec3(500, 3000, 500), 0, 0, 0, Vec3(18000, 1500, -7000),
             Vec4(1000, 1000, 1000, 1000), <<>>, <<>>, "Box", TRUE),
      Object(1555, Vec3(500, 3000, 500), 0, 0, 0, Vec3(12000, 1500, -7000),
             Vec4(1000, 1000, 1000, 1000), <<>>, <<>>, "Box", TRUE),
      Object(1592, Vec3(500, 3000, 500), 0, 0, 0, Vec3(18000, 1500, -7000),
             Vec4(1000, 1000, 1000, 1000), <<>>, <<>>, "Box", TRUE),
      Object(1627, Vec3(5500, 500, 500), 0, 0, 0, Vec3(15000, 250, -7000),
             Vec4(1000, 1000, 1000, 1000), <<>>, <<>>, "Box", TRUE),
      Object(1663, Vec3(500, 500, 4500), 0, 0, 0, Vec3(18000, 250, -5000),
             Vec4(1000, 1000, 1000, 1000), <<>>, <<>>, "Box", TRUE),
      Object(1699, Vec3(500, 500, 4500), 0, 0, 0, Vec3(12000, 250, -5000),
             Vec4(1000, 1000, 1000, 1000), <<>>, <<>>, "Box", TRUE),
      Object(1735, Vec3(5500, 500, 500), 0, 0, 0, Vec3(15000, 250, -3000),
             Vec4(1000, 1000, 1000, 1000), <<>>, <<>>, "Box", TRUE),
      Object(1771, Vec3(1500, 80, 1500), 0, 0, 0, Vec3(15000, 3550, -5750),
             Vec4(392, 584, 929, 1000), <<>>, <<>>, "Box", TRUE),
      Object(1806, Vec3(150, 3000, 150), 0, 0, 0, Vec3(15000, 5000, -5750),
             Vec4(392, 584, 929, 1000), <<>>, <<>>, "Box", TRUE),
      Object(1841, Vec3(750, -1500, 750), 0, 0, 0, Vec3(15000, 7600, -5750),
             Vec4(392, 584, 929, 1000), <<>>, <<>>, "HalfSphere", TRUE),
      Object(1876, Vec3(600, 500, 600), 0, 0, 0, Vec3(15000, 7400, -5750),
             Vec4(1000, 1000, 878, 1000), <<>>, <<>>, "HalfSphere", TRUE),
      Object(1911, Vec3(250, 10, 50), 0, 0, 0, Vec3(15000, 3600, -5250),
             Vec4(753, 753, 753, 1000), <<>>, <<>>, "Box", TRUE)
    >>

\* the SetTransformations arguments of a block
TransformArgs(o) == <<o.scale, o.X, o.Y, o.Z, o.position>>

\* ModelView of the arguments the blocks use, computed once
SceneModelViews ==
    {<<a, ModelView(a[1], a[2], a[3], a[4], a[5])>> :
        a \in {TransformArgs(SceneScript[i]) : i \in 1..Len(SceneScript)}}

\* ModelView, read from SceneModelViews where it holds the arguments
ModelViewCached(scaleXYZ, XrotationDegrees, YrotationDegrees, ZrotationDegrees, positionXYZ) ==
    LET a == <<scaleXYZ, XrotationDegrees, YrotationDegrees, ZrotationDegrees,
               positionXYZ>>
    IN  IF \E e \in SceneModelViews : e[1] = a
        THEN (CHOOSE e \in SceneModelViews : e[1] = a)[2]
        ELSE ModelView(scaleXYZ, XrotationDegrees, YrotationDegrees, ZrotationDegrees,
                       positionXYZ)

\* ------------------------------------------------------------------------
\* Shader state facade
\* ------------------------------------------------------------------------
\* the outcome of a facade call on uniform values u: the uniforms it leaves,
\* the uniform names it pushed in order, whether it dereferenced NULL
Outcome(u, pushed, nullDeref) == [u |-> u, pushed |-> pushed, crashed |-> nullDeref]

SetTransformationsOn(u, scaleXYZ, XrotationDegrees, YrotationDegrees, ZrotationDegrees, positionXYZ) ==
    IF m_pShaderManager # NULL
    THEN Outcome([u EXCEPT !.model = ModelViewCached(scaleXYZ, XrotationDegrees,
                                                     YrotationDegrees, ZrotationDegrees,
                                                     positionXYZ)],
                 <<"model">>, FALSE)
    ELSE Outcome(u, <<>>, FALSE)

\* SetShaderColor without the setIntValue(g_UseTextureName, false) line
SetShaderColorOn_FlagKept(u, currentColor) ==
    IF m_pShaderManager # NULL
    THEN Outcome([u EXCEPT !.objectColor = currentColor], <<"objectColor">>, FALSE)
    ELSE Outcome(u, <<>>, FALSE)

\* SetShaderColor that also switches lighting off for the flat color
SetShaderColorOn_LightingOff(u, currentColor) ==
    IF m_pShaderManager # NULL
    THEN Outcome([u EXCEPT !.bUseTexture = BoolToInt(FALSE),
                           !.objectColor = currentColor,
                           !.bUseLighting = FALSE],
                 <<"bUseTexture", "objectColor", "bUseLighting">>, FALSE)
    ELSE Outcome(u, <<>>, FALSE)

\* SetShaderColor that also puts the material uniforms back to zero
SetShaderColorOn_MaterialReset(u, currentColor) ==
    IF m_pShaderManager # NULL
    THEN Outcome([u EXCEPT !.bUseTexture = BoolToInt(FALSE),
                           !.objectColor = currentColor,
                           !.matDiffuse = Vec3(0, 0, 0),
                           !.matSpecular = Vec3(0, 0, 0),
                           !.matShininess = 0],
                 <<"bUseTexture", "objectColor">>, FALSE)
    ELSE Outcome(u, <<>>, FALSE)

SetShaderColorOn(u, currentColor) ==
    IF m_pShaderManager # NULL
    THEN Outcome([u EXCEPT !.bUseTexture = BoolToInt(FALSE),
                           !.objectColor = currentColor],
                 <<"bUseTexture", "objectColor">>, FALSE)
    ELSE Outcome(u, <<>>, FALSE)

\* SetShaderTexture that returns early when FindTextureSlot finds nothing
SetShaderTextureOn_SkipMissing(u, textureTag) ==
    IF m_pShaderManager # NULL /\ FindTextureSlotRet(textureTag) # -1
    THEN Outcome([u EXCEPT !.bUseTexture = BoolToInt(TRUE),
                           !.objectTexture = FindTextureSlotRet(textureTag)],
                 <<"bUseTexture", "objectTexture">>, FALSE)
    ELSE Outcome(u, <<>>, FALSE)

\* SetShaderTexture that sets the sampler only when FindTextureSlot found a slot
SetShaderTextureOn_FlagOnly(u, textureTag) ==
    IF m_pShaderManager # NULL
    THEN IF FindTextureSlotRet(textureTag) # -1
         THEN Outcome([u EXCEPT !.bUseTexture = BoolToInt(TRUE),
                                !.objectTexture = FindTextureSlotRet(textureTag)],
                      <<"bUseTexture", "objectTexture">>, FALSE)
         ELSE Outcome([u EXCEPT !.bUseTexture = BoolToInt(TRUE)], <<"bUseTexture">>, FALSE)
    ELSE Outcome(u, <<>>, FALSE)

SetShaderTextureOn(u, textureTag) ==
    IF m_pShaderManager # NULL
    THEN Outcome([u EXCEPT !.bUseTexture = BoolToInt(TRUE),
                           !.objectTexture = FindTextureSlotRet(textureTag)],
                 <<"bUseTexture", "objectTexture">>, FALSE)
    ELSE Outcome(u, <<>>, FALSE)

SetTextureUVScaleOn(u, uv) ==
    IF m_pShaderManager # NULL
    THEN Outcome([u EXCEPT !.UVscale = uv], <<"UVscale">>, FALSE)
    ELSE Outcome(u, <<>>, FALSE)

\* SetShaderMaterial without the material.shininess line
SetShaderMaterialOn_NoShininess(u, materialTag, material) ==
    IF Len(m_objectMaterials) > 0 /\ m_pShaderManager # NULL
    THEN LET r == FindMaterialCall(materialTag, material)
         IN  Outcome([u EXCEPT !.matDiffuse = r.material.diffuseColor,
                               !.matSpecular = r.material.specularColor],
                     <<"material.diffuseColor", "material.specularColor">>, FALSE)
    ELSE Outcome(u, <<>>, Len(m_objectMaterials) > 0)

\* SetShaderMaterial without its size() > 0 and bReturn tests: what FindMaterial
\* left in the local is pushed in every case
SetShaderMaterialOn_Unguarded(u, materialTag, material) ==
    IF m_pShaderManager # NULL
    THEN Outcome([u EXCEPT !.matDiffuse = FindMaterialCall(materialTag, material).material.diffuseColor,
                           !.matSpecular = FindMaterialCall(materialTag, material).material.specularColor,
                           !.matShininess = FindMaterialCall(materialTag, material).material.shininess],
                 <<"material.diffuseColor", "material.specularColor",
                   "material.shininess">>, FALSE)
    ELSE Outcome(u, <<>>, TRUE)

\* SetShaderMaterial with `material` the contents of its uninitialized local
SetShaderMaterialOn(u, materialTag, material) ==
    IF Len(m_objectMaterials) > 0
    THEN LET r == FindMaterialCall(materialTag, material)
         IN  IF r.ok
             THEN IF m_pShaderManager # NULL
                  THEN Outcome([u EXCEPT !.matDiffuse = r.material.diffuseColor,
                                         !.matSpecular = r.material.specularColor,
                                         !.matShininess = r.material.shininess],
                               <<"material.diffuseColor", "material.specularColor",
                                 "material.shininess">>, FALSE)
                  ELSE \* m_pShaderManager-> with m_pShaderManager NULL
                       Outcome(u, <<>>, TRUE)
             ELSE Outcome(u, <<>>, FALSE)
    ELSE Outcome(u, <<>>, FALSE)

\* contents the uninitialized local OBJECT_MATERIAL of SetShaderMaterial can have
IndeterminateMaterials ==
    {NoMaterial,
     [diffuseColor |-> Vec3(-1, 7, 7), specularColor |-> Vec3(7, -1, 7),
      shininess |-> -7]}

\* colors a caller passes to SetShaderColor
CallerColors == {Vec4(753, 753, 753, 1000), Vec4(1000, 1000, 878, 1000)}

\* a facade call with outcome r leaves the uniforms and the crash flag of r
FacadeCall(op, tag, args, material, r) ==
    /\ ~crashed
    /\ uniforms' = r.u
    /\ crashed' = r.crashed
    /\ last' = [NoCall EXCEPT !.op = op, !.tag = tag, !.args = args,
                   !.matIn = material, !.pushed = r.pushed]
    /\ UNCHANGED <<m_pShaderManager, m_loadedTextures, m_textureIDs, m_objectMaterials,
                   m_basicMeshes, glTextures, glActiveUnit, glBound, stbiLive,
                   drawCalls, loadsOk, nLoads, nPrepares, nFrames>>

SetTransformations(scaleXYZ, XrotationDegrees, YrotationDegrees, ZrotationDegrees, positionXYZ) ==
    FacadeCall("SetTransformations", "",
               <<scaleXYZ, XrotationDegrees, YrotationDegrees, ZrotationDegrees,
                 positionXYZ>>,
               NoMaterial,
               SetTransformationsOn(uniforms, scaleXYZ, XrotationDegrees,
                                    YrotationDegrees, ZrotationDegrees, positionXYZ))

SetShaderColor(currentColor) ==
    FacadeCall("SetShaderColor", "", currentColor, NoMaterial,
               SetShaderColorOn(uniforms, currentColor))

SetShaderTexture(textureTag) ==
    FacadeCall("SetShaderTexture", textureTag, <<>>, NoMaterial,
               SetShaderTextureOn(uniforms, textureTag))

SetShaderMaterial(materialTag) ==
    \E material \in IndeterminateMaterials :
        FacadeCall("SetShaderMaterial", materialTag, <<>>, material,
                   SetShaderMaterialOn(uniforms, materialTag, material))

\* ------------------------------------------------------------------------
\* Scene script: PrepareScene and RenderScene
\* ------------------------------------------------------------------------
\* the tags LoadSceneTextures loads, in order
SceneTextureTags == <<"couch", "wall", "floor">>

\* the CreateGLTexture calls of LoadSceneTextures from the i-th on, with
\* files[i] what stbi_load makes of the i-th file, then BindGLTextures
RECURSIVE LoadSceneTexturesFrom(_, _, _)
LoadSceneTexturesFrom(i, t, files) ==
    IF i <= Len(SceneTextureTags)
    THEN LoadSceneTexturesFrom(i + 1,
                               CreateGLTextureOn(t, files[i], SceneTextureTags[i]).t,
                               files)
    ELSE BindGLTexturesOn(t)

\* the three CreateGLTexture calls of LoadSceneTextures alone
RECURSIVE LoadsFrom(_, _, _)
LoadsFrom(i, t, files) ==
    IF i <= Len(SceneTextureTags)
    THEN LoadsFrom(i + 1, CreateGLTextureOn(t, files[i], SceneTextureTags[i]).t, files)
    ELSE t

\* LoadSceneTextures that gives up at the first CreateGLTexture returning false
RECURSIVE LoadsUntilFailure(_, _, _)
LoadsUntilFailure(i, t, files) ==
    IF i <= Len(SceneTextureTags)
    THEN IF CreateGLTextureOn(t, files[i], SceneTextureTags[i]).ok
         THEN LoadsUntilFailure(i + 1,
                                CreateGLTextureOn(t, files[i], SceneTextureTags[i]).t, files)
         ELSE CreateGLTextureOn(t, files[i], SceneTextureTags[i]).t
    ELSE BindGLTexturesOn(t)

LoadSceneTexturesOn_StopOnFailure(t, files) == LoadsUntilFailure(1, t, files)

\* LoadSceneTextures with BindGLTextures called ahead of the loads
LoadSceneTexturesOn_BindFirst(t, files) == LoadsFrom(1, BindGLTexturesOn(t), files)

LoadSceneTexturesOn(t, files) == LoadSceneTexturesFrom(1, t, files)

\* the calls LoadSceneTextures makes, in order
LoadSceneTexturesCalls ==
    [i \in 1..Len(SceneTextureTags) |-> "CreateGLTexture"] \o <<"BindGLTextures">>

PointLight(position) ==
    [position |-> position, ambient |-> Vec3(50, 50, 50), diffuse |-> Vec3(500, 500, 500),
     specular |-> Vec3(200, 200, 200), bActive |-> TRUE]

\* SetupSceneLights: it uses m_pShaderManager without testing it
SetupSceneLightsOn(u) ==
    IF m_pShaderManager # NULL
    THEN Outcome([u EXCEPT !.bUseLighting = TRUE,
                           !.pointLights = <<PointLight(Vec3(-15000, 10000, -5750)),
                                             PointLight(Vec3(15000, 10000, -5750))>>],
                 <<"bUseLighting", "pointLights[0]", "pointLights[1]", "bUseLighting">>,
                 FALSE)
    ELSE Outcome(u, <<>>, TRUE)

\* the mesh kinds PrepareScene loads: LoadPlaneMesh, LoadBoxMesh,
\* LoadCylinderMesh, LoadSphereMesh
PreparedMeshes == {"Plane", "Box", "Cylinder", "Sphere"}

\* whether Load<kind>Mesh has been called on m_basicMeshes
MeshLoaded(meshes, kind) == kind \in meshes

\* the calls PrepareScene makes, in order; a NULL dereference in
\* SetupSceneLights ends them
PrepareSceneCalls(nullDeref) ==
    LoadSceneTexturesCalls \o <<"DefineObjectMaterials", "SetupSceneLights">>
        \o (IF nullDeref
            THEN <<>>
            ELSE <<"LoadPlaneMesh", "LoadBoxMesh", "LoadCylinderMesh", "LoadSphereMesh">>)

\* PrepareScene with files[i] what stbi_load makes of the i-th texture file
PrepareScene(files) ==
    /\ ~crashed
    /\ nPrepares < MaxPrepares
    /\ SetTexState(LoadSceneTexturesOn(TexState, files))
    /\ m_objectMaterials' = DefinedMaterials(m_objectMaterials)
    /\ LET lights == SetupSceneLightsOn(uniforms)
       IN  /\ uniforms' = lights.u
           /\ crashed' = lights.crashed
           /\ m_basicMeshes' = IF lights.crashed
                               THEN m_basicMeshes
                               ELSE m_basicMeshes \cup PreparedMeshes
           /\ last' = [NoCall EXCEPT !.op = "PrepareScene", !.args = files,
                          !.pushed = lights.pushed,
                          !.calls = PrepareSceneCalls(lights.crashed)]
    /\ nPrepares' = nPrepares + 1
    /\ UNCHANGED <<m_pShaderManager, drawCalls, nLoads, nFrames>>

\* the per-object uniforms a draw call is issued with (a record over a subset
\* of the fields of u)
ObjectUniforms(u) ==
    [model |-> u.model, bUseTexture |-> u.bUseTexture, objectColor |-> u.objectColor,
     objectTexture |-> u.objectTexture, matDiffuse |-> u.matDiffuse,
     matSpecular |-> u.matSpecular, matShininess |-> u.matShininess]

\* the draw calls of block i after its facade calls, whose outcome is r: each
\* holds the uniforms it is issued with, and the first one the facade calls
\* made and the uniforms pushed since the draw before it
DrawsOf(i, r) ==
    [k \in 1..(IF SceneScript[i].lines THEN 2 ELSE 1) |->
        [object |-> i, mesh |-> SceneScript[i].mesh, lines |-> (k = 2),
         loaded |-> MeshLoaded(m_basicMeshes, SceneScript[i].mesh),
         u |-> ObjectUniforms(r.u),
         calls |-> IF k = 1 THEN r.calls ELSE <<>>,
         pushed |-> IF k = 1 THEN r.pushed ELSE <<>>]]

\* facade call `op` with outcome s, made after the calls whose outcome is r
Then(r, op, s) ==
    [u |-> s.u, pushed |-> r.pushed \o s.pushed, crashed |-> s.crashed,
     calls |-> Append(r.calls, op)]

\* the start of a block on uniforms u: no call made yet
BlockStart(u) == [u |-> u, pushed |-> <<>>, crashed |-> FALSE, calls |-> <<>>]

\* the SetTransformations call of block o
BlockTransform(o, r) ==
    Then(r, "SetTransformations",
         SetTransformationsOn(r.u, o.scale, o.X, o.Y, o.Z, o.position))

\* a block written without its SetShaderColor call
BlockColor_Omitted(o, r) == r

\* the SetShaderColor call of block o
BlockColor(o, r) == Then(r, "SetShaderColor", SetShaderColorOn(r.u, o.color))

\* the SetShaderTexture call of block o, when it has one
BlockTexture(o, r) ==
    IF o.tex # <<>>
    THEN Then(r, "SetShaderTexture", SetShaderTextureOn(r.u, o.tex[1]))
    ELSE r

\* the SetShaderMaterial call of block o, when it has one
BlockMaterial(o, r, material) ==
    IF o.mat # <<>>
    THEN Then(r, "SetShaderMaterial", SetShaderMaterialOn(r.u, o.mat[1], material))
    ELSE r

\* block o with SetShaderTexture moved ahead of SetShaderColor
BlockCalls_TextureFirst(o, u, material) ==
    BlockMaterial(o, BlockColor(o, BlockTexture(o, BlockTransform(o, BlockStart(u)))),
                  material)

\* the facade calls of block o on uniforms u, with `material` the contents of
\* SetShaderMaterial's uninitialized local
BlockCalls(o, u, material) ==
    BlockMaterial(o, BlockTexture(o, BlockColor(o, BlockTransform(o, BlockStart(u)))),
                  material)

BlockState(i, u, material) == BlockCalls(SceneScript[i], u, material)

\* RenderScene from block i on: the uniforms and the draw calls it leaves
RECURSIVE RenderFrom(_, _, _, _)

\* what follows the facade calls of block i, whose outcome is r
BlockDraws(i, r, draws, material) ==
    IF r.crashed
    THEN [u |-> r.u, draws |-> draws, crashed |-> TRUE]
    ELSE RenderFrom(i + 1, r.u, draws \o DrawsOf(i, r), material)

RenderFrom(i, u, draws, material) ==
    IF i > Len(SceneScript)
    THEN [u |-> u, draws |-> draws, crashed |-> FALSE]
    ELSE BlockDraws(i, BlockState(i, u, material), draws, material)

\* contents of SetShaderMaterial's local that can show in a frame: it is read
\* only when the registry has entries and none carries a block's tag
RenderLocals ==
    IF /\ Len(m_objectMaterials) > 0
       /\ \E i \in 1..Len(SceneScript) :
             /\ SceneScript[i].mat # <<>>
             /\ \A k \in 1..Len(m_objectMaterials) :
                   m_objectMaterials[k].tag # SceneScript[i].mat[1]
    THEN IndeterminateMaterials
    ELSE {NoMaterial}

RenderScene ==
    /\ ~crashed
    /\ nFrames < MaxFrames
    /\ \E material \in RenderLocals :
          LET r == RenderFrom(1, uniforms, <<>>, material)
          IN  /\ uniforms' = r.u
              /\ drawCalls' = r.draws
              /\ crashed' = r.crashed
    /\ last' = [NoCall EXCEPT !.op = "RenderScene",
                              !.frame = IF last.op = "RenderScene" THEN last.frame + 1 ELSE 1]
    /\ nFrames' = nFrames + 1
    /\ UNCHANGED <<m_pShaderManager, m_loadedTextures, m_textureIDs, m_objectMaterials,
                   m_basicMeshes, glTextures, glActiveUnit, glBound, stbiLive,
                   loadsOk, nLoads, nPrepares>>

\* ------------------------------------------------------------------------
\* Specifications
\* ------------------------------------------------------------------------
\* the texture registry, called in any order
Next ==
    \/ \E file \in FileKinds, tag \in TexTags : CreateGLTexture(file, tag)
    \/ \E tag \in TexTags : FindTextureSlot(tag)
    \/ \E tag \in TexTags : FindTextureID(tag)
    \/ BindGLTextures

Spec == Init /\ [][Next]_vars

\* the material registry and SetShaderMaterial, called in any order
NextMaterial ==
    \/ DefineObjectMaterials
    \/ \E tag \in MatTags, material \in CallerMaterials : FindMaterial(tag, material)
    \/ \E tag \in MatTags : SetShaderMaterial(tag)

SpecMaterial == Init /\ [][NextMaterial]_vars

\* files and tags of the loads that precede the color / texture calls
FacadeFiles == {NoImage, [image |-> TRUE, channels |-> 3]}
FacadeTags == {"couch", "floor"}

\* SetShaderColor and SetShaderTexture over registries built by loads
NextFacade ==
    \/ \E file \in FacadeFiles, tag \in FacadeTags : CreateGLTexture(file, tag)
    \/ \E c \in CallerColors : SetShaderColor(c)
    \/ \E tag \in TexTags : SetShaderTexture(tag)

SpecFacade == Init /\ [][NextFacade]_vars

\* scales, angles and positions handed to SetTransformations
ScaleInputs == {Vec3(Fx(2), Fx(1), Fx(1)), Vec3(Fx(1), Fx(2), Fx(3)), Vec3(750, -1500, 250)}
AngleInputs == {0, 90, 180, 270, -90}
PositionInputs == {Vec3(0, 0, 0), Vec3(Fx(1), 0, 0), Vec3(-6250, 4500, -Fx(7))}

\* the arguments of a SetTransformations call, drawn before the call
InitTransform ==
    /\ Fresh
    /\ \E scaleXYZ \in ScaleInputs, X \in AngleInputs, Y \in AngleInputs,
          Z \in AngleInputs, positionXYZ \in PositionInputs :
          last = [NoCall EXCEPT !.op = "pending",
                                !.args = <<scaleXYZ, X, Y, Z, positionXYZ>>]

\* the transform composer applied to the drawn arguments
NextTransform ==
    /\ last.op = "pending"
    /\ SetTransformations(last.args[1], last.args[2], last.args[3], last.args[4],
                          last.args[5])

SpecTransform == InitTransform /\ [][NextTransform]_vars

\* loads of one tag until the registry is full and beyond
NextCapacity ==
    \E file \in FacadeFiles : CreateGLTextureUpTo(MaxCapacityLoads, file, "couch")

SpecCapacity == Init /\ [][NextCapacity]_vars

\* loads, then teardown: DestroyGLTextures and the destructor, after which
\* the object takes no call
NextTeardown ==
    \/ \E file \in FileKinds, tag \in FacadeTags : Alive /\ CreateGLTexture(file, tag)
    \/ DestroyGLTextures
    \/ Destructor

SpecTeardown == Init /\ [][NextTeardown]_vars

\* what stbi_load makes of the i-th scene texture file when the load fails:
\* an image with an unsupported channel count for the first file, no image
\* for the others
SceneFileKinds == <<[image |-> TRUE, channels |-> 1], NoImage, NoImage>>

\* the outcomes of the three loads of LoadSceneTextures: each file either
\* loads as a 3-channel image or fails
SceneFiles ==
    LET good == [image |-> TRUE, channels |-> 3]
    IN  {<<f1, f2, f3>> : f1 \in {SceneFileKinds[1], good},
                          f2 \in {SceneFileKinds[2], good},
                          f3 \in {SceneFileKinds[3], good}}

\* a session: PrepareScene and RenderScene
NextScene ==
    \/ \E files \in SceneFiles : PrepareScene(files)
    \/ RenderScene

SpecScene == Init /\ [][NextScene]_vars

\* ------------------------------------------------------------------------
\* Texture registry: properties (specification Spec)
\* ------------------------------------------------------------------------
\* slots 0 .. m_loadedTextures-1 whose entry carries `tag`
SlotsWithTag(tag) == {i \in 0..(m_loadedTextures - 1) : m_textureIDs[i + 1].tag = tag}

\* number of entries of `entries` carrying `tag`
EntriesWithTag(entries, tag) ==
    Cardinality({i \in 1..Len(entries) : entries[i].tag = tag})

\* the lowest of a non-empty set of slots
LowestSlot(S) == CHOOSE i \in S : \A j \in S : i <= j

\* the step is a call of CreateGLTexture
IsLoadStep == nLoads' = nLoads + 1 /\ last'.op = "CreateGLTexture"

\* C2: a CreateGLTexture call whose file cannot be decoded, or whose image has
\* a channel count other than 3 or 4, returns false and leaves the number of
\* entries and every entry's tag and ID as they were.
C2_FailedLoadRegistersNothing ==
    [][(IsLoadStep /\ (~last'.file.image \/ last'.file.channels \notin {3, 4}))
        => (/\ ~last'.ok
            /\ m_loadedTextures' = m_loadedTextures
            /\ m_textureIDs' = m_textureIDs)]_vars

\* C2 witness: a 2-channel image was refused on a registry that has entries
C2_Witness ==
    /\ last.op = "CreateGLTexture"
    /\ last.file.image /\ last.file.channels = 2
    /\ ~last.ok
    /\ m_loadedTextures > 0

\* C3: a successful load takes the next free slot, and because a fresh
\* SceneManager has no entries that slot is the number of successful loads
\* before it: the first load gets slot 0, and the entry count is the number
\* of successful loads.
C3_SlotIsLoadOrder ==
    (last.op = "CreateGLTexture" /\ last.ok)
        => (/\ m_loadedTextures = last.slot + 1
            /\ m_textureIDs[last.slot + 1] = [tag |-> last.tag, ID |-> last.id]
            /\ last.slot = loadsOk - 1)

\* C4: a successful load of a tag that is already registered adds one more
\* entry with that tag, and for every registered tag FindTextureSlot and
\* FindTextureID return the slot and the ID of the lowest slot carrying it.
C4_FirstMatchHere ==
    \A tag \in TexTags :
        SlotsWithTag(tag) # {}
            => (/\ FindTextureSlotRet(tag) = LowestSlot(SlotsWithTag(tag))
                /\ FindTextureIDRet(tag) = m_textureIDs[LowestSlot(SlotsWithTag(tag)) + 1].ID)

C4_FirstMatchWins ==
    [][/\ C4_FirstMatchHere
       /\ C4_FirstMatchHere'
       /\ (IsLoadStep /\ last'.ok)
            => EntriesWithTag(m_textureIDs', last'.tag)
                  = EntriesWithTag(m_textureIDs, last'.tag) + 1
      ]_vars

\* C4 witness: the same tag was loaded twice with different IDs and a lookup
\* of it has returned
C4_Witness ==
    /\ last.op = "FindTextureID"
    /\ loadsOk = 2
    /\ Cardinality(SlotsWithTag(last.tag)) >= 2
    /\ \E i, j \in SlotsWithTag(last.tag) : m_textureIDs[i + 1].ID # m_textureIDs[j + 1].ID

\* the step is a call of FindTextureSlot or FindTextureID
IsFindStep == last'.op \in {"FindTextureSlot", "FindTextureID"}

\* C5: for a tag no entry carries (the registry may be empty) FindTextureSlot
\* and FindTextureID return -1 after comparing at most m_loadedTextures
\* entries, and a lookup leaves the registry as it was.
C5_AbsentHere ==
    \A tag \in TexTags :
        SlotsWithTag(tag) = {}
            => (/\ FindTextureSlotScan(tag).ret = -1
                /\ FindTextureIDScan(tag).ret = -1
                /\ FindTextureSlotScan(tag).iters <= m_loadedTextures
                /\ FindTextureIDScan(tag).iters <= m_loadedTextures)

C5_AbsentTagSentinel ==
    [][/\ C5_AbsentHere
       /\ C5_AbsentHere'
       /\ IsFindStep
            => (/\ m_loadedTextures' = m_loadedTextures
                /\ m_textureIDs' = m_textureIDs
                /\ (SlotsWithTag(last'.tag) = {} => last'.ret = -1))
      ]_vars

\* C5 witness: a lookup of an absent tag returned -1 on a registry with entries
C5_Witness ==
    /\ last.op = "FindTextureID"
    /\ SlotsWithTag(last.tag) = {}
    /\ last.ret = -1
    /\ m_loadedTextures > 0
    /\ last.iters = m_loadedTextures

\* C12: BindGLTextures on a registry within the 16 slots binds, for every
\* i below m_loadedTextures, texture unit i to the ID of entry i, leaves every
\* unit from m_loadedTextures on as it was, and leaves the registry alone.
C12_BindsUnitToSlot ==
    [][(last'.op = "BindGLTextures" /\ m_loadedTextures <= TexCapacity)
        => (/\ \A i \in 0..(m_loadedTextures - 1) : glBound'[i] = m_textureIDs[i + 1].ID
            /\ \A unit \in GLUnits : unit >= m_loadedTextures => glBound'[unit] = glBound[unit]
            /\ m_loadedTextures' = m_loadedTextures
            /\ m_textureIDs' = m_textureIDs)]_vars

\* C12 witness: two loaded textures are bound on units 0 and 1 (or 1 and 2),
\* the unit after them is not
C12_Witness ==
    /\ last.op = "BindGLTextures"
    /\ loadsOk = 2
    /\ \A i \in 0..(m_loadedTextures - 1) : glBound[i] = m_textureIDs[i + 1].ID
    /\ glBound[m_loadedTextures - 1] # glBound[m_loadedTextures - 2]
    /\ glBound[m_loadedTextures - 1] # 0
    /\ glBound[m_loadedTextures] = 0

\* C15: the registry never holds more than 16 entries, and a successful load
\* stores its entry in one of the slots 0..15.
C15_WithinCapacity ==
    /\ m_loadedTextures <= TexCapacity
    /\ (last.op = "CreateGLTexture" /\ last.ok) => last.slot \in GLUnits

\* the GL names stored in the registry
RegisteredIDs == {m_textureIDs[i].ID : i \in 1..m_loadedTextures}

\* nothing is leaked: every GL texture name allocated is stored in a registry
\* entry, every decoded image buffer has been freed, and GL_TEXTURE_2D on the
\* active unit is unbound (0)
LeakFree ==
    /\ glTextures \subseteq RegisteredIDs
    /\ stbiLive = 0
    /\ glBound[glActiveUnit] = 0

\* C23: a CreateGLTexture call made when nothing is leaked leaves nothing
\* leaked, whatever its outcome (success, undecodable file, unsupported
\* channel count); so nothing is leaked after any sequence of loads.
C23_LoadLeaksNothing ==
    [][(IsLoadStep /\ LeakFree) => LeakFree']_vars

\* unit i is bound to the GL name that a load stored in registry entry i
BoundToEntry(bound, i) ==
    /\ i \in GLUnits
    /\ m_textureIDs[i + 1].ID \in glTextures
    /\ bound[i] = m_textureIDs[i + 1].ID

\* C24: a texture unit that BindGLTextures bound to the name of its registry
\* entry is still bound to it after a later CreateGLTexture call.
C24_BindingsSurviveLoads ==
    [][IsLoadStep => \A i \in 0..(m_loadedTextures - 1) :
                        BoundToEntry(glBound, i) => BoundToEntry(glBound', i)]_vars

\* ------------------------------------------------------------------------
\* Material registry: properties (specification SpecMaterial)
\* ------------------------------------------------------------------------
\* indexes of the materials carrying `tag`
MaterialsWithTag(tag) ==
    {i \in 1..Len(m_objectMaterials) : m_objectMaterials[i].tag = tag}

FirstMaterial(tag) == m_objectMaterials[LowestSlot(MaterialsWithTag(tag))]

\* C6: FindMaterial returns false on an empty registry; on a non-empty one it
\* returns true, leaving the caller's material untouched when no entry has the
\* tag and copying diffuse color, specular color and shininess of the first
\* entry with the tag otherwise.
C6_FindMaterialAsymmetry ==
    last.op = "FindMaterial"
        => IF Len(m_objectMaterials) = 0
           THEN ~last.ok
           ELSE /\ last.ok
                /\ IF MaterialsWithTag(last.tag) = {}
                   THEN last.matOut = last.matIn
                   ELSE /\ last.matOut.diffuseColor = FirstMaterial(last.tag).diffuseColor
                        /\ last.matOut.specularColor = FirstMaterial(last.tag).specularColor
                        /\ last.matOut.shininess = FirstMaterial(last.tag).shininess

\* C6 witness: success on a non-empty registry for a tag it does not hold,
\* with the caller's (non-zero) material handed back
C6_Witness ==
    /\ last.op = "FindMaterial"
    /\ Len(m_objectMaterials) > 0
    /\ MaterialsWithTag(last.tag) = {}
    /\ last.ok
    /\ last.matIn # NoMaterial
    /\ last.matOut = last.matIn

\* C9: with a shader manager and a non-empty material registry
\* SetShaderMaterial pushes material.diffuseColor, material.specularColor and
\* material.shininess: the first matching entry's values when the tag is
\* registered, and otherwise the contents its local material happened to have
\* (no entry's values), with no error raised.
C9_MaterialAlwaysPushed ==
    (last.op = "SetShaderMaterial" /\ Len(m_objectMaterials) > 0 /\ m_pShaderManager # NULL)
        => (/\ last.pushed = <<"material.diffuseColor", "material.specularColor",
                               "material.shininess">>
            /\ ~crashed
            /\ LET src == IF MaterialsWithTag(last.tag) = {}
                          THEN last.matIn
                          ELSE FirstMaterial(last.tag)
               IN  /\ uniforms.matDiffuse = src.diffuseColor
                   /\ uniforms.matSpecular = src.specularColor
                   /\ uniforms.matShininess = src.shininess)

\* C9 witness: an unregistered tag pushed values that belong to no entry
C9_Witness ==
    /\ last.op = "SetShaderMaterial"
    /\ m_pShaderManager # NULL
    /\ Len(m_objectMaterials) > 0
    /\ MaterialsWithTag(last.tag) = {}
    /\ Len(last.pushed) = 3
    /\ \A i \in 1..Len(m_objectMaterials) :
          uniforms.matShininess # m_objectMaterials[i].shininess

\* the shader facade operations
FacadeOps ==
    {"SetTransformations", "SetShaderColor", "SetShaderTexture", "SetTextureUVScale",
     "SetShaderMaterial", "SetupSceneLights"}

\* C25: with a NULL shader manager a facade call pushes no uniform, leaves
\* the uniform values alone and does not dereference the NULL pointer,
\* whatever the material registry holds.
C25_NullShaderNoOp ==
    (m_pShaderManager = NULL /\ last.op \in FacadeOps)
        => /\ ~crashed
           /\ last.pushed = <<>>
           /\ uniforms = UniformDefaults

\* ------------------------------------------------------------------------
\* Shader state facade: properties (specification SpecFacade)
\* ------------------------------------------------------------------------
\* C7: with a shader manager, SetShaderColor(r,g,b,a) leaves bUseTexture false
\* and objectColor = (r,g,b,a), and SetShaderTexture(tag) leaves bUseTexture
\* true and objectTexture = the slot of the first entry carrying the tag (-1
\* when there is none); so the flag is that of the most recent of the two.
C7_ColorTextureExclusive ==
    m_pShaderManager # NULL
        => (/\ last.op = "SetShaderColor"
                => (uniforms.bUseTexture = 0 /\ uniforms.objectColor = last.args)
            /\ last.op = "SetShaderTexture"
                => (/\ uniforms.bUseTexture = 1
                    /\ uniforms.objectTexture =
                          IF SlotsWithTag(last.tag) = {}
                          THEN -1
                          ELSE LowestSlot(SlotsWithTag(last.tag))))

\* C7 witness: SetShaderColor has cleared a flag that an earlier
\* SetShaderTexture of a registered tag had set
C7_Witness ==
    /\ m_pShaderManager # NULL
    /\ last.op = "SetShaderColor"
    /\ uniforms.bUseTexture = 0
    /\ uniforms.objectTexture > 0

\* ------------------------------------------------------------------------
\* Transform composer: properties (specification SpecTransform)
\* ------------------------------------------------------------------------
\* the image of point p under the affine matrix M
Apply(M, p) ==
    LET e(i) == FxMul(M[i][1], p[1]) + FxMul(M[i][2], p[2]) + FxMul(M[i][3], p[3])
                + M[i][4]
    IN  Vec3(e(1), e(2), e(3))

\* a point scaled, turned by a quarter turn about an axis, moved
ScalePoint(v, p) == Vec3(FxMul(v[1], p[1]), FxMul(v[2], p[2]), FxMul(v[3], p[3]))
QuarterX(p) == Vec3(p[1], -p[3], p[2])
QuarterY(p) == Vec3(p[3], p[2], -p[1])
QuarterZ(p) == Vec3(-p[2], p[1], p[3])
MovePoint(v, p) == Vec3(p[1] + v[1], p[2] + v[2], p[3] + v[3])

\* p turned by a multiple of 90 degrees, one quarter turn at a time
RECURSIVE Turned(_, _, _)
Turned(axis, quarters, p) ==
    IF quarters = 0
    THEN p
    ELSE Turned(axis, quarters - 1,
                CASE axis = "X" -> QuarterX(p) [] axis = "Y" -> QuarterY(p)
                  [] OTHER -> QuarterZ(p))

TurnPoint(axis, degrees, p) == Turned(axis, (degrees \div 90) % 4, p)

\* scaled first, then turned about X, then Y, then Z, then moved
Posed(a, p) ==
    MovePoint(a[5], TurnPoint("Z", a[4], TurnPoint("Y", a[3], TurnPoint("X", a[2],
              ScalePoint(a[1], p)))))

\* the corners of the cube of side 2 about the origin
CubeCorners == {Vec3(x, y, z) : x \in {-Fx(1), Fx(1)}, y \in {-Fx(1), Fx(1)}, z \in {-Fx(1), Fx(1)}}

\* C1: with a shader manager, SetTransformations pushes as `model` the matrix
\* Translate(T) * RotateZ * RotateY * RotateX * Scale(S): it takes every probe
\* point to the point obtained by scaling, turning about X, then Y, then Z,
\* and translating; scale (2,1,1), rotation (0,90,0), translation (1,0,0)
\* takes (1,0,0) to (1,0,-2).
C1_ScaleRotateTranslate ==
    (last.op = "SetTransformations" /\ m_pShaderManager # NULL)
        => (/\ last.pushed = <<"model">>
            /\ uniforms.model[4] = <<0, 0, 0, Fx(1)>>
            /\ \A p \in CubeCorners \cup {Vec3(0, 0, 0), Vec3(Fx(1), 0, 0)} :
                  Apply(uniforms.model, p) = Posed(last.args, p)
            /\ last.args = <<Vec3(Fx(2), Fx(1), Fx(1)), 0, 90, 0, Vec3(Fx(1), 0, 0)>>
                  => Apply(uniforms.model, Vec3(Fx(1), 0, 0)) = Vec3(Fx(1), 0, -Fx(2)))

\* C1 witness: the call of the example has pushed its matrix
C1_Witness ==
    /\ last.op = "SetTransformations"
    /\ m_pShaderManager # NULL
    /\ last.args = <<Vec3(Fx(2), Fx(1), Fx(1)), 0, 90, 0, Vec3(Fx(1), 0, 0)>>
    /\ Apply(uniforms.model, Vec3(Fx(1), 0, 0)) = Vec3(Fx(1), 0, -Fx(2))

\* ------------------------------------------------------------------------
\* Scene script: properties (specification SpecScene)
\* ------------------------------------------------------------------------
\* the draw calls of the last frame that belong to block i
DrawsOfBlock(i) == {k \in 1..Len(drawCalls) : drawCalls[k].object = i}

\* C8: with a shader manager, a block whose SetShaderTexture tag is not
\* registered still reaches its draw calls, and they are issued with
\* bUseTexture true and the sampler objectTexture = -1.
C8_MissingTextureStillDrawn ==
    (last.op = "RenderScene" /\ m_pShaderManager # NULL)
        => \A i \in 1..Len(SceneScript) :
              (SceneScript[i].tex # <<>> /\ SlotsWithTag(SceneScript[i].tex[1]) = {})
                  => (/\ Cardinality(DrawsOfBlock(i)) = IF SceneScript[i].lines THEN 2 ELSE 1
                      /\ \A k \in DrawsOfBlock(i) :
                            /\ drawCalls[k].u.bUseTexture = 1
                            /\ drawCalls[k].u.objectTexture = -1)

\* C8 witness: after a PrepareScene whose "floor" load failed while another
\* load succeeded, the floor plane was drawn with the sampler at -1
C8_Witness ==
    /\ last.op = "RenderScene"
    /\ m_pShaderManager # NULL
    /\ nPrepares = 1
    /\ loadsOk > 0
    /\ SlotsWithTag("floor") = {}
    /\ drawCalls # <<>>
    /\ drawCalls[1].mesh = "Plane"
    /\ drawCalls[1].u.bUseTexture = 1
    /\ drawCalls[1].u.objectTexture = -1

\* C10: in a frame rendered after PrepareScene, every draw call is of a mesh
\* kind that PrepareScene has loaded.
C10_DrawnMeshesLoaded ==
    (last.op = "RenderScene" /\ nPrepares >= 1)
        => \A k \in 1..Len(drawCalls) : drawCalls[k].loaded

\* C11: a RenderScene call that directly follows a RenderScene call issues the
\* same draw calls, with the same facade calls and uniform pushes before each
\* and the same model matrix, color, texture flag, sampler and material
\* uniforms at each.
C11_RenderIdempotent ==
    [][(last.op = "RenderScene" /\ last'.op = "RenderScene")
        => drawCalls' = drawCalls]_vars

\* C11 witness: a second frame in a row of a prepared session with textures
C11_Witness ==
    /\ last.op = "RenderScene"
    /\ last.frame = 2
    /\ m_pShaderManager # NULL
    /\ nPrepares = 1
    /\ loadsOk > 0
    /\ Len(drawCalls) > Len(SceneScript)

\* C18: a RenderScene call leaves the texture registry, the material registry
\* and the uniforms SetupSceneLights sets (bUseLighting and both point lights)
\* as they were.
C18_RenderKeepsSessionData ==
    [][last'.op = "RenderScene"
        => (/\ m_loadedTextures' = m_loadedTextures
            /\ m_textureIDs' = m_textureIDs
            /\ m_objectMaterials' = m_objectMaterials
            /\ uniforms'.pointLights = uniforms.pointLights
            /\ uniforms'.bUseLighting = uniforms.bUseLighting)]_vars

\* C18 witness: two frames of a prepared session have left the lights on and
\* both registries filled
C18_Witness ==
    /\ last.op = "RenderScene"
    /\ nFrames = 2
    /\ nPrepares = 1
    /\ uniforms.bUseLighting
    /\ uniforms.pointLights[1].bActive /\ uniforms.pointLights[2].bActive
    /\ m_loadedTextures > 0
    /\ Len(m_objectMaterials) > 0
    /\ drawCalls # <<>>

\* the facade calls that may follow SetTransformations and SetShaderColor
OptionalCalls ==
    {<<>>, <<"SetShaderTexture">>, <<"SetShaderMaterial">>,
     <<"SetShaderTexture", "SetShaderMaterial">>}

\* C20: in a frame every object's draw calls come after exactly its own facade
\* calls, made in the order SetTransformations, SetShaderColor, then
\* SetShaderTexture if any, then SetShaderMaterial if any; objects are drawn one
\* after the other, and nothing is set between the draw calls of one object.
\* With a shader manager the draw is issued with that object's model matrix and
\* color, and with the texture flag set exactly when the object has a texture.
C20_FacadeCallsThenDraw ==
    last.op = "RenderScene"
        => /\ \A k \in 1..(Len(drawCalls) - 1) :
                 \/ drawCalls[k + 1].object = drawCalls[k].object + 1
                 \/ /\ drawCalls[k + 1].object = drawCalls[k].object
                    /\ drawCalls[k + 1].lines /\ ~drawCalls[k].lines
           /\ drawCalls # <<>> => drawCalls[1].object = 1 /\ ~drawCalls[1].lines
           /\ \A k \in 1..Len(drawCalls) :
                 LET d == drawCalls[k]
                     o == SceneScript[d.object]
                 IN  IF d.lines
                     THEN /\ d.calls = <<>>
                          /\ d.u = drawCalls[k - 1].u
                     ELSE /\ Len(d.calls) >= 2
                          /\ d.calls[1] = "SetTransformations"
                          /\ d.calls[2] = "SetShaderColor"
                          /\ SubSeq(d.calls, 3, Len(d.calls)) \in OptionalCalls
                          /\ ("SetShaderTexture" \in {d.calls[j] : j \in 1..Len(d.calls)})
                                <=> (o.tex # <<>>)
                          /\ ("SetShaderMaterial" \in {d.calls[j] : j \in 1..Len(d.calls)})
                                <=> (o.mat # <<>>)
                          /\ m_pShaderManager # NULL
                                => (/\ d.u.model = ModelViewCached(o.scale, o.X, o.Y, o.Z,
                                                                   o.position)
                                    /\ d.u.objectColor = o.color
                                    /\ d.u.bUseTexture = BoolToInt(o.tex # <<>>))

\* C20 witness: a whole frame was drawn with a shader manager, its last
\* object after a textured one
C20_Witness ==
    /\ last.op = "RenderScene"
    /\ m_pShaderManager # NULL
    /\ nPrepares = 1
    /\ Len(drawCalls) > 0
    /\ drawCalls[Len(drawCalls)].object = Len(SceneScript)
    /\ \E k \in 1..Len(drawCalls) :
          /\ drawCalls[k].calls = <<"SetTransformations", "SetShaderColor",
                                    "SetShaderTexture", "SetShaderMaterial">>
          /\ drawCalls[k].u.bUseTexture = 1

\* positions of call `op` in a sequence of calls
CallsOf(calls, op) == {k \in 1..Len(calls) : calls[k] = op}

\* C13: PrepareScene calls BindGLTextures once, after its three
\* CreateGLTexture calls, so that it leaves every entry of the registry bound
\* on the unit of its slot; RenderScene starts no load and no bind, and once
\* PrepareScene has run every draw call that samples a slot finds that slot's
\* texture bound on its unit.
C13_BindAfterLoadsBeforeDraws ==
    [][/\ last'.op = "PrepareScene"
            => (/\ Cardinality(CallsOf(last'.calls, "BindGLTextures")) = 1
                /\ Cardinality(CallsOf(last'.calls, "CreateGLTexture")) = 3
                /\ \A b \in CallsOf(last'.calls, "BindGLTextures") :
                      \A c \in CallsOf(last'.calls, "CreateGLTexture") : c < b
                /\ \A i \in 0..(m_loadedTextures' - 1) :
                      glBound'[i] = m_textureIDs'[i + 1].ID)
       /\ last'.op = "RenderScene"
            => (/\ loadsOk' = loadsOk
                /\ m_loadedTextures' = m_loadedTextures
                /\ m_textureIDs' = m_textureIDs
                /\ glTextures' = glTextures
                /\ glBound' = glBound
                /\ glActiveUnit' = glActiveUnit
                /\ stbiLive' = stbiLive
                /\ \A k \in 1..Len(drawCalls') :
                      /\ drawCalls'[k].calls \in
                            {<<>>} \cup {<<"SetTransformations", "SetShaderColor">> \o c :
                                           c \in OptionalCalls}
                      /\ (nPrepares >= 1 /\ drawCalls'[k].u.bUseTexture = 1
                            /\ drawCalls'[k].u.objectTexture >= 0)
                            => glBound'[drawCalls'[k].u.objectTexture]
                                  = m_textureIDs'[drawCalls'[k].u.objectTexture + 1].ID)
      ]_vars

\* C13 witness: a frame after a PrepareScene that loaded all three textures
\* has sampled the last of them
C13_Witness ==
    /\ last.op = "RenderScene"
    /\ nPrepares = 1
    /\ loadsOk = 3
    /\ \E k \in 1..Len(drawCalls) :
          /\ drawCalls[k].u.bUseTexture = 1
          /\ drawCalls[k].u.objectTexture = m_loadedTextures - 1
          /\ glBound[m_loadedTextures - 1] = m_textureIDs[m_loadedTextures].ID
          /\ glBound[m_loadedTextures - 1] # 0

\* after PrepareScene with a shader manager: nothing stopped it, it made all
\* its calls, both materials are defined, the lights are set, the meshes are
\* loaded, every entry is bound, and (first PrepareScene) a scene tag is
\* registered exactly when its file loaded
PreparedDespiteFailures ==
    (last.op = "PrepareScene" /\ m_pShaderManager # NULL)
        => /\ ~crashed
           /\ last.calls = PrepareSceneCalls(FALSE)
           /\ MaterialsWithTag("fabric") # {} /\ MaterialsWithTag("wood") # {}
           /\ uniforms.bUseLighting
           /\ uniforms.pointLights[1].bActive /\ uniforms.pointLights[2].bActive
           /\ PreparedMeshes \subseteq m_basicMeshes
           /\ \A i \in 0..(m_loadedTextures - 1) : glBound[i] = m_textureIDs[i + 1].ID
           /\ nPrepares = 1
                => \A i \in 1..Len(SceneTextureTags) :
                      (SlotsWithTag(SceneTextureTags[i]) # {})
                         <=> (last.args[i].image /\ last.args[i].channels \in {3, 4})

\* in a frame drawn with a shader manager, a textured object is drawn with
\* sampler -1 when its tag is not registered and with a slot of the registry
\* carrying its tag otherwise
ResolvedOrSentinel ==
    (last.op = "RenderScene" /\ m_pShaderManager # NULL)
        => \A k \in 1..Len(drawCalls) :
              LET o == SceneScript[drawCalls[k].object]
              IN  o.tex # <<>>
                    => IF SlotsWithTag(o.tex[1]) = {}
                       THEN drawCalls[k].u.objectTexture = -1
                       ELSE /\ drawCalls[k].u.objectTexture \in SlotsWithTag(o.tex[1])
                            /\ drawCalls[k].u.objectTexture \in GLUnits

\* C14: whichever of the three texture loads fail, PrepareScene goes on to the
\* remaining loads, BindGLTextures, DefineObjectMaterials, SetupSceneLights
\* and the mesh loads; a tag whose load failed stays unregistered through
\* every frame, where SetShaderTexture pushes -1 for it, while a tag that
\* loaded resolves to its slot.
C14_FailedLoadNotFatal ==
    [][/\ PreparedDespiteFailures'
       /\ ResolvedOrSentinel'
       /\ last'.op = "RenderScene"
            => \A i \in 1..Len(SceneTextureTags) :
                  (SlotsWithTag(SceneTextureTags[i]) = {})'
                     <=> (SlotsWithTag(SceneTextureTags[i]) = {})
      ]_vars

\* C14 witness: "wall" failed to load, "couch" and "floor" loaded; a frame drew
\* the wall with sampler -1 and the floor with the slot after couch's
C14_Witness ==
    /\ last.op = "RenderScene"
    /\ m_pShaderManager # NULL
    /\ nPrepares = 1
    /\ loadsOk = 2
    /\ SlotsWithTag("wall") = {}
    /\ SlotsWithTag("floor") = {m_loadedTextures - 1}
    /\ \E k \in 1..Len(drawCalls) :
          /\ SceneScript[drawCalls[k].object].tex = <<"wall">>
          /\ drawCalls[k].u.objectTexture = -1
    /\ drawCalls[1].u.objectTexture = m_loadedTextures - 1

\* ------------------------------------------------------------------------
\* Both registries: properties (specification Spec)
\* ------------------------------------------------------------------------
\* C16: no two entries of the texture registry carry the same tag, and no two
\* entries of the material registry carry the same tag (stated for the tags
\* callers pass that are not the empty string, which slots no load wrote may
\* hold).
C16_TagsUnique ==
    /\ \A tag \in TexTags \ {""} : Cardinality(SlotsWithTag(tag)) <= 1
    /\ \A tag \in MatTags : Cardinality(MaterialsWithTag(tag)) <= 1

\* ------------------------------------------------------------------------
\* Scene script, end to end: properties (specification SpecScene)
\* ------------------------------------------------------------------------
\* C17: in a frame of a session prepared once, with a shader manager, the
\* floor plane (first draw call) is drawn with model matrix Scale(20,1,10),
\* bUseTexture true and the "wood" material (0.5,0.5,0.5), (0.4,0.4,0.4), 0.3;
\* its sampler is slot 0 when "floor" is the only texture that loaded and
\* slot 2 when "couch" and "wall" loaded before it.
C17_FloorPlaneEndToEnd ==
    (/\ last.op = "RenderScene"
     /\ m_pShaderManager # NULL
     /\ nPrepares = 1
     /\ SlotsWithTag("floor") # {})
        => LET d == drawCalls[1]
           IN  /\ d.mesh = "Plane"
               /\ d.u.model = <<<<Fx(20), 0, 0, 0>>, <<0, Fx(1), 0, 0>>,
                                <<0, 0, Fx(10), 0>>, <<0, 0, 0, Fx(1)>>>>
               /\ d.u.objectColor = Vec4(753, 753, 753, Fx(1))
               /\ d.u.bUseTexture = 1
               /\ d.u.matDiffuse = Vec3(500, 500, 500)
               /\ d.u.matSpecular = Vec3(400, 400, 400)
               /\ d.u.matShininess = 300
               /\ loadsOk = 1 => d.u.objectTexture = 0
               /\ loadsOk = 3 => d.u.objectTexture = 2

\* ------------------------------------------------------------------------
\* Teardown: properties (specification SpecTeardown)
\* ------------------------------------------------------------------------
\* C19: after a successful load, a teardown step (DestroyGLTextures, the
\* destructor) leaves no texture name that was in the registry allocated in
\* GL, and allocates no new name.
C19_TeardownDestroysTextures ==
    [][(loadsOk > 0 /\ last'.op \in {"DestroyGLTextures", "~SceneManager"})
          => /\ \A i \in 1..m_loadedTextures : m_textureIDs[i].ID \notin glTextures'
             /\ glTextures' \subseteq glTextures]_vars


\* ------------------------------------------------------------------------
\* Scene script, shader state carried between blocks (specification SpecScene)
\* ------------------------------------------------------------------------
\* the material uniforms a draw call was issued with
MaterialOf(d) == <<d.u.matDiffuse, d.u.matSpecular, d.u.matShininess>>

\* the draw calls of the last frame whose block has no SetShaderMaterial call
DrawsWithoutMaterialCall ==
    {k \in 1..Len(drawCalls) : SceneScript[drawCalls[k].object].mat = <<>>}

\* C21: a draw call of a block without SetShaderMaterial is issued with the
\* material uniforms of the draw call before it; in a frame after
\* PrepareScene every such draw call has the "wood" values (0.5,0.5,0.5),
\* (0.4,0.4,0.4), 0.3 and none has the shininess of "fabric".
C21_MaterialInherited ==
    last.op = "RenderScene"
        => \A k \in DrawsWithoutMaterialCall :
              /\ k > 1
              /\ MaterialOf(drawCalls[k]) = MaterialOf(drawCalls[k - 1])
              /\ nPrepares >= 1
                    => /\ MaterialOf(drawCalls[k])
                            = <<Vec3(500, 500, 500), Vec3(400, 400, 400), 300>>
                       /\ drawCalls[k].u.matShininess # fabricMaterial.shininess

\* C21 witness: the second frame after PrepareScene drew the couch base
\* (block 3, no SetShaderMaterial) with the shininess of "wood"
C21_Witness ==
    /\ last.op = "RenderScene"
    /\ last.frame = 2
    /\ nPrepares = 1
    /\ \E k \in DrawsWithoutMaterialCall :
          /\ drawCalls[k].object = 3
          /\ drawCalls[k].u.matShininess = woodMaterial.shininess


\* C22: with a shader manager, every draw call of a frame is issued with
\* bUseTexture true exactly when its own block calls SetShaderTexture: the
\* flag of the block drawn before it, in this frame or the frame before, is
\* not carried over.
C22_TextureFlagNotInherited ==
    (last.op = "RenderScene" /\ m_pShaderManager # NULL)
        => \A k \in 1..Len(drawCalls) :
              /\ drawCalls[k].u.bUseTexture \in {0, 1}
              /\ drawCalls[k].u.bUseTexture = 1
                    <=> SceneScript[drawCalls[k].object].tex # <<>>

\* C22 witness: in a second frame the couch base (block 3, no
\* SetShaderTexture) was drawn with the flag off right after the textured
\* wall (block 2) was drawn with the flag on
C22_Witness ==
    /\ last.op = "RenderScene"
    /\ last.frame = 2
    /\ m_pShaderManager # NULL
    /\ \E k \in 2..Len(drawCalls) :
          /\ drawCalls[k - 1].object = 2
          /\ drawCalls[k - 1].u.bUseTexture = 1
          /\ drawCalls[k].object = 3
          /\ drawCalls[k].u.bUseTexture = 0


\* ------------------------------------------------------------------------
\* Scene script, RenderScene without PrepareScene (specification SpecScene)
\* ------------------------------------------------------------------------
\* the uniform names SetShaderMaterial pushes
MaterialUniformNames ==
    {"material.diffuseColor", "material.specularColor", "material.shininess"}

\* the names in a sequence of pushed uniform names
Names(pushed) == {pushed[k] : k \in 1..Len(pushed)}

\* every block has its draw calls, in the order of the blocks
CompleteDrawSequence ==
    /\ \A i \in 1..Len(SceneScript) :
          Cardinality(DrawsOfBlock(i)) = IF SceneScript[i].lines THEN 2 ELSE 1
    /\ \A k \in 2..Len(drawCalls) : drawCalls[k - 1].object <= drawCalls[k].object

\* C26: a frame rendered before any PrepareScene (no scene texture
\* registered, no material defined) still issues every draw call; with a
\* shader manager each block with SetShaderTexture is drawn with bUseTexture
\* true and the sampler -1; no material uniform is pushed and the material
\* uniforms keep the values they had before the frame.
C26_RenderWithoutPrepare ==
    (last.op = "RenderScene" /\ nPrepares = 0)
        => /\ ~crashed
           /\ CompleteDrawSequence
           /\ \A k \in 1..Len(drawCalls) :
                 /\ Names(drawCalls[k].pushed) \cap MaterialUniformNames = {}
                 /\ MaterialOf(drawCalls[k])
                       = <<UniformDefaults.matDiffuse, UniformDefaults.matSpecular,
                           UniformDefaults.matShininess>>
                 /\ (m_pShaderManager # NULL /\ SceneScript[drawCalls[k].object].tex # <<>>)
                       => /\ drawCalls[k].u.bUseTexture = 1
                          /\ drawCalls[k].u.objectTexture = -1
                          /\ ~drawCalls[k].lines
                                => {"bUseTexture", "objectTexture"}
                                      \subseteq Names(drawCalls[k].pushed)

\* C26 witness: a frame rendered with a shader manager and without
\* PrepareScene drew the floor plane first, with the sampler at -1 after a
\* SetShaderMaterial call, and the last block last
C26_Witness ==
    /\ last.op = "RenderScene"
    /\ nPrepares = 0
    /\ m_pShaderManager # NULL
    /\ m_objectMaterials = <<>>
    /\ drawCalls # <<>>
    /\ drawCalls[1].u.objectTexture = -1
    /\ "SetShaderMaterial" \in Names(drawCalls[1].calls)
    /\ drawCalls[Len(drawCalls)].object = Len(SceneScript)

====
